---------------------------- MODULE Spec2Model ----------------------------
(***************************************************************************)
(* Model of the unity-purchase-system:                                     *)
(*   - customer-management-api/app/main.py : the Kafka consumer thread     *)
(*     (Event Ingestor), the MongoDB store, the lifespan start-up and      *)
(*     shutdown sequence and the /health endpoint;                         *)
(*   - customer-web-server/app/main.py : publish_to_kafka (Event           *)
(*     Publisher), the producer's send queue and the /buy endpoint.        *)
(***************************************************************************)
EXTENDS Naturals, Sequences, FiniteSets

(***************************************************************************)
(* Bounds of the model.                                                    *)
(***************************************************************************)
MaxLog == 3
MaxCalls == 2
MaxCrashes == 2

(***************************************************************************)
(* Values.                                                                 *)
(***************************************************************************)
None == "None"
Absent == "<absent>"

Fields == {"userId", "username", "price", "timestamp", "eventType"}

\* JSON objects found on the topic: a field that is missing maps to Absent.
EventA ==
    [userId |-> "u1", username |-> "ann", price |-> "9.99",
     timestamp |-> "2024-01-01T00:00:00Z", eventType |-> "purchase_request"]
EventC ==
    [userId |-> "u2", username |-> "bob", price |-> "9.99",
     timestamp |-> "2024-01-01T00:00:00Z", eventType |-> Absent]
NoObject ==
    [userId |-> Absent, username |-> Absent, price |-> Absent,
     timestamp |-> Absent, eventType |-> Absent]

\* A message value is the byte payload: UTF-8 JSON text of an object, or
\* bytes that are not JSON at all.
JsonText(obj) == [fmt |-> "json", obj |-> obj]
Garbage == [fmt |-> "garbage", obj |-> NoObject]

Events == {EventA, EventC}

\* A second purchase of the owner of EventA.
EventB ==
    [userId |-> "u1", username |-> "ann", price |-> "19.99",
     timestamp |-> "2024-01-02T00:00:00Z", eventType |-> "purchase_request"]

Partitions == {1, 2}
\* The partitioner: records with one key land in one partition.
PartitionOf(key) == IF key = "u1" THEN 1 ELSE 2

\* Messages some producer may have written to the topic.
\* seq is the number of the publish call that produced the message, 0 for a
\* message of another producer.
Message(key, value, seq) == [key |-> key, value |-> value, seq |-> seq]
TopicMessages ==
    {Message(e.userId, JsonText(e), 0) : e \in Events}
        \cup {Message("u1", Garbage, 0)}
NoMsg == Message(None, Garbage, 0)

\* What poll returns in place of a message: an event whose error() is set.
ErrorCodes == {"_PARTITION_EOF", "_TRANSPORT"}
ErrorEvent(code) == [key |-> None, value |-> Garbage, seq |-> 0, error |-> code]
IsErrorEvent(m) == \E code \in ErrorCodes : m = ErrorEvent(code)

VARIABLES
    \* ---- customer-management-api globals (main.py 36-39)
    mongo_client,       \* None, or the client object ("unpinged" / "pinged")
    kafka_consumer,     \* None or "consumer"
    consumer_running,   \* the shared run flag
    \* ---- external systems
    mongoUp,            \* the store answers
    store,              \* the purchases collection: a sequence of documents
    log,                \* the topic: partition -> sequence of messages
    pos,                \* partition -> number of messages this consumer took
    committed,          \* partition -> the group's committed position
    crashes,            \* number of times the process was killed and restarted
    consumerState,      \* "absent", "open", "closed": the Consumer object
    subscribed,         \* the Consumer object is subscribed to the topic
    \* ---- the consumer thread (kafka_consumer_loop)
    ing_pc,             \* its position
    msg,                \* the message in hand
    doc,                \* purchase_doc
    heldClientClosed,   \* the collection in hand belongs to a closed client
    calls,              \* process_purchase_event calls: value and return
    clock,              \* datetime.utcnow()
    \* ---- the main thread (lifespan) and the request handlers
    life_pc,
    health_resp,
    \* ---- customer-web-server: publish_to_kafka and the producer
    kafka_producer,     \* the global producer: None or "producer"
    pub_pc,             \* position of the publish call in progress
    polls,              \* iterations done of "for _ in range(100)"
    cur,                \* number of the publish call in progress (or the last)
    delivery_status,    \* call -> the delivery_status dictionary of the call
    pq,                 \* partition -> the producer's queue of unsent messages
    reports,            \* delivery reports waiting for poll/flush to serve them
    pub_rets,           \* what the publish calls returned
    buy_req,            \* the /buy request the publish call in progress serves
    buy_resps           \* the responses of /buy

ingVars == <<mongo_client, kafka_consumer, consumer_running, mongoUp, store,
             pos, committed, crashes, consumerState, subscribed, ing_pc, msg, doc, heldClientClosed, calls,
             clock, life_pc, health_resp>>
pubVars == <<kafka_producer, pub_pc, polls, cur, delivery_status,
            pq, reports, pub_rets, buy_req, buy_resps>>
vars == <<ingVars, log, pubVars>>

storeVars == <<mongoUp, store>>
topicVars == <<log, pos>>
workerVars == <<ing_pc, msg, doc, heldClientClosed, calls, clock>>
commitVars == <<committed, crashes>>

NoDoc == [userId |-> None, username |-> None, price |-> None,
          timestamp |-> None, eventType |-> None, createdAt |-> 0, id |-> 0]
NoHealth == [status |-> None, mongodb |-> None, kafka |-> None, code |-> 0]
\* No /buy request: the publish call comes from elsewhere.
NoReq == [username |-> None, userId |-> None, price |-> None, timestamp |-> None]

(***************************************************************************)
(* Pure helpers.                                                           *)
(***************************************************************************)
\* Mutant of JsonLoads: no JSONDecodeError, text that is not JSON parses to
\* an empty object.
JsonLoadsLenient(value) == [ok |-> TRUE, obj |-> value.obj]

\* json.loads: the object, or a JSONDecodeError.
JsonLoads(value) ==
    IF value.fmt = "json" THEN [ok |-> TRUE, obj |-> value.obj]
    ELSE [ok |-> FALSE, obj |-> NoObject]

\* JSONResponse renders its content as strict JSON: a float that is not
\* finite raises ValueError.
JsonCompliant(price) == price \notin {"Infinity", "-Infinity", "NaN"}

\* dict.get(key) and dict.get(key, default)
Get(obj, k) == IF obj[k] = Absent THEN None ELSE obj[k]
GetDefault(obj, k, d) == IF obj[k] = Absent THEN d ELSE obj[k]

\* purchase_doc of process_purchase_event
PurchaseDoc(event_data, now) ==
    [userId |-> Get(event_data, "userId"),
     username |-> Get(event_data, "username"),
     price |-> Get(event_data, "price"),
     timestamp |-> Get(event_data, "timestamp"),
     eventType |-> GetDefault(event_data, "eventType", "purchase_request"),
     createdAt |-> now,
     id |-> 0]

\* get_mongo_client: the handle afterwards and whether the call raised.
\* The handle is assigned before the ping, and stays assigned when the ping
\* raises ConnectionFailure.
GetMongoClient(handle, up) ==
    IF handle = None
    THEN [handle |-> IF up THEN "pinged" ELSE "unpinged", raised |-> ~up]
    ELSE [handle |-> handle, raised |-> FALSE]

\* The state of the Ingestor's state machine at a position of the thread.
IngState(pc) ==
    CASE pc \in {"L142", "L145", "L147"} -> "SUBSCRIBING"
      [] pc \in {"L149", "L150", "L165", "L124"} -> "POLLING"
      [] OTHER -> "STOPPED"

LogTotal == Len(log[1]) + Len(log[2])

(***************************************************************************)
(* Init: the module is loaded, nothing is connected, no thread runs.       *)
(***************************************************************************)
Init ==
    /\ mongo_client = None
    /\ kafka_consumer = None
    /\ consumer_running = FALSE
    /\ mongoUp = TRUE
    /\ store = <<>>
    /\ log = [p \in Partitions |-> <<>>]
    /\ pos = [p \in Partitions |-> 0]
    /\ committed = [p \in Partitions |-> 0]
    /\ crashes = 0
    /\ consumerState = "absent"
    /\ subscribed = FALSE
    /\ ing_pc = "idle"
    /\ msg = NoMsg
    /\ doc = NoDoc
    /\ heldClientClosed = FALSE
    /\ calls = <<>>
    /\ clock = 0
    /\ life_pc = "S201"
    /\ health_resp = NoHealth
    /\ kafka_producer = None
    /\ pub_pc = "idle"
    /\ polls = 0
    /\ cur = 0
    /\ delivery_status = [c \in 1..MaxCalls |-> [delivered |-> FALSE, error |-> None,
                                        completed |-> FALSE]]
    /\ pq = [p \in Partitions |-> <<>>]
    /\ reports = <<>>
    /\ pub_rets = <<>>
    /\ buy_req = NoReq
    /\ buy_resps = <<>>

(***************************************************************************)
(* The environment: producers write to the topic, the store goes up and    *)
(* down.                                                                   *)
(***************************************************************************)
TopicAppend(m) ==
    /\ LogTotal < MaxLog
    /\ log' = [log EXCEPT ![PartitionOf(m.key)] = Append(@, m)]
    /\ UNCHANGED <<mongo_client, kafka_consumer, consumer_running, storeVars,
                   pos, consumerState, workerVars, life_pc, health_resp>>
    /\ UNCHANGED <<subscribed, commitVars, pubVars>>

MongoFlip ==
    /\ mongoUp' = ~mongoUp
    /\ UNCHANGED <<mongo_client, kafka_consumer, consumer_running, store,
                   topicVars, consumerState, workerVars, life_pc, health_resp>>
    /\ UNCHANGED <<subscribed, commitVars, pubVars>>

(***************************************************************************)
(* lifespan: start-up.                                                     *)
(***************************************************************************)
\* lines 199-207: get_mongo_client(), create_index("userId"); every exception
\* is logged.  The index on userId is not unique.
StartupMongo ==
    /\ life_pc = "S201"
    /\ mongo_client' = GetMongoClient(mongo_client, mongoUp).handle
    /\ life_pc' = "S211"
    /\ UNCHANGED <<kafka_consumer, consumer_running, storeVars, topicVars,
                   consumerState, workerVars, health_resp>>
    /\ UNCHANGED <<subscribed, commitVars, pubVars>>

\* lines 209-215 and start_kafka_consumer: the thread is started; sleep(2)
\* waits for nothing.
StartKafkaConsumer ==
    /\ life_pc = "S211"
    /\ ing_pc' = IF ing_pc \in {"idle", "stopped", "dead"} THEN "L142" ELSE ing_pc
    /\ life_pc' = "serving"
    /\ UNCHANGED <<mongo_client, kafka_consumer, consumer_running, storeVars,
                   topicVars, consumerState, msg, doc, heldClientClosed, calls,
                   clock, health_resp>>
    /\ UNCHANGED <<subscribed, commitVars, pubVars>>

(***************************************************************************)
(* kafka_consumer_loop, one action per step of the thread.                 *)
(***************************************************************************)
\* line 142, get_kafka_consumer: Consumer(config) may raise; the exception
\* leaves the thread function (the call is outside the try).
GetKafkaConsumer(created) ==
    /\ ing_pc = "L142"
    /\ IF kafka_consumer = None
       THEN IF created
            THEN /\ kafka_consumer' = "consumer"
                 /\ consumerState' = "open"
                 /\ ing_pc' = "L145"
            ELSE /\ ing_pc' = "dead"
                 /\ UNCHANGED <<kafka_consumer, consumerState>>
       ELSE /\ ing_pc' = "L145"
            /\ UNCHANGED <<kafka_consumer, consumerState>>
    /\ UNCHANGED <<mongo_client, consumer_running, storeVars, topicVars, msg,
                   doc, heldClientClosed, calls, clock, life_pc, health_resp>>
    /\ UNCHANGED <<subscribed, commitVars, pubVars>>

\* Mutant of Subscribe: a failed subscription is swallowed and the loop is
\* entered all the same.
SubscribeFailureSwallowed(ok) ==
    /\ ing_pc = "L145"
    /\ subscribed' = (ok /\ consumerState = "open")
    /\ ing_pc' = "L147"
    /\ UNCHANGED <<mongo_client, kafka_consumer, consumer_running, storeVars,
                   topicVars, consumerState, msg, doc, heldClientClosed, calls,
                   clock, life_pc, health_resp>>
    /\ UNCHANGED <<commitVars, pubVars>>

\* line 145: subscribe raises on a closed consumer, and may fail otherwise.
Subscribe(ok) ==
    /\ ing_pc = "L145"
    /\ subscribed' = (ok /\ consumerState = "open")
    /\ ing_pc' = IF subscribed' THEN "L147" ELSE "L174"
    /\ UNCHANGED <<mongo_client, kafka_consumer, consumer_running, storeVars,
                   topicVars, consumerState, msg, doc, heldClientClosed, calls,
                   clock, life_pc, health_resp>>
    /\ UNCHANGED <<commitVars, pubVars>>

\* line 147
SetRunning ==
    /\ ing_pc = "L147"
    /\ consumer_running' = TRUE
    /\ ing_pc' = "L149"
    /\ UNCHANGED <<mongo_client, kafka_consumer, storeVars, topicVars,
                   consumerState, msg, doc, heldClientClosed, calls, clock,
                   life_pc, health_resp>>
    /\ UNCHANGED <<subscribed, commitVars, pubVars>>

\* line 149: while consumer_running.  The event of the last iteration is
\* not read again.
LoopCheck ==
    /\ ing_pc = "L149"
    /\ ing_pc' = IF consumer_running THEN "L150" ELSE "L174"
    /\ msg' = NoMsg
    /\ UNCHANGED <<mongo_client, kafka_consumer, consumer_running, storeVars,
                   topicVars, consumerState, doc, heldClientClosed, calls,
                   clock, life_pc, health_resp>>
    /\ UNCHANGED <<subscribed, commitVars, pubVars>>

\* Where the loop goes when consumer.poll raises (line 150 is outside the
\* inner try: the outer except logs, the finally runs).
AfterPollRaised == "L174"
\* Mutant of AfterErrorEvent: break instead of continue.
AfterErrorEventBreaks == "L174"
\* Mutant of AfterErrorEvent: the event is handled like a message.
AfterErrorEventProcesses == "L165"

\* Where the loop goes after a message that carries an error (lines 155-161).
AfterErrorEvent == "L149"

\* line 150: poll on a closed consumer raises RuntimeError.
PollClosed ==
    /\ ing_pc = "L150"
    /\ consumerState # "open"
    /\ ing_pc' = AfterPollRaised
    /\ UNCHANGED <<mongo_client, kafka_consumer, consumer_running, storeVars,
                   topicVars, consumerState, msg, doc, heldClientClosed, calls,
                   clock, life_pc, health_resp>>
    /\ UNCHANGED <<subscribed, commitVars, pubVars>>

\* lines 150-153: the poll times out.
PollNone ==
    /\ ing_pc = "L150"
    /\ consumerState = "open"
    /\ ing_pc' = "L149"
    /\ UNCHANGED <<mongo_client, kafka_consumer, consumer_running, storeVars,
                   topicVars, consumerState, msg, doc, heldClientClosed, calls,
                   clock, life_pc, health_resp>>
    /\ UNCHANGED <<subscribed, commitVars, pubVars>>

\* lines 155-161: the poll returns an event with an error set
\* (_PARTITION_EOF or a transport error): logged, continue.
PollError(code) ==
    /\ ing_pc = "L150"
    /\ consumerState = "open"
    /\ msg' = ErrorEvent(code)
    /\ ing_pc' = AfterErrorEvent
    /\ UNCHANGED <<mongo_client, kafka_consumer, consumer_running, storeVars,
                   topicVars, consumerState, doc, heldClientClosed, calls,
                   clock, life_pc, health_resp>>
    /\ UNCHANGED <<subscribed, commitVars, pubVars>>

\* line 150: the poll returns the next message of a partition.
PollMessage(p) ==
    /\ ing_pc = "L150"
    /\ consumerState = "open"
    /\ subscribed
    /\ pos[p] < Len(log[p])
    /\ msg' = log[p][pos[p] + 1]
    /\ pos' = [pos EXCEPT ![p] = @ + 1]
    /\ ing_pc' = "L165"
    /\ UNCHANGED <<mongo_client, kafka_consumer, consumer_running, storeVars,
                   log, consumerState, doc, heldClientClosed, calls, clock,
                   life_pc, health_resp>>
    /\ UNCHANGED <<subscribed, commitVars, pubVars>>

\* Mutant of ProcessReturn: the duplicate-key rejection is reported as a
\* failure.
ProcessReturnDuplicateFails(path) == path = "inserted"

\* What process_purchase_event returns on each of its paths (lines 126-136).
ProcessReturn(path) ==
    CASE path = "inserted" -> TRUE
      [] path = "duplicate" -> TRUE
      [] path = "decode" -> FALSE
      [] OTHER -> FALSE

\* Mutant of AfterMessage: the message is handled again.
AfterMessageRetries == "L165"

\* Where the loop goes after process_purchase_event returned, or after the
\* inner except of lines 168-169 logged an exception.
AfterMessage == "L149"

Call(m, path) == [msg |-> m, path |-> path, ret |-> ProcessReturn(path)]

\* lines 165-167 and 107-123: decode, json.loads, purchase_doc,
\* get_collection().  msg and purchase_doc are not read again once the
\* iteration is over: they are cleared there.
ProcessDecode ==
    /\ ing_pc = "L165"
    /\ LET parsed == JsonLoads(msg.value)
           got == GetMongoClient(mongo_client, mongoUp)
       IN IF ~parsed.ok
          THEN /\ calls' = Append(calls, Call(msg, "decode"))
               /\ ing_pc' = AfterMessage
               /\ msg' = NoMsg
               /\ UNCHANGED <<mongo_client, doc, clock>>
          ELSE /\ clock' = clock + 1
               /\ mongo_client' = got.handle
               /\ IF got.raised
                  THEN /\ calls' = Append(calls, Call(msg, "error"))
                       /\ ing_pc' = AfterMessage
                       /\ msg' = NoMsg
                       /\ doc' = NoDoc
                  ELSE /\ calls' = calls
                       /\ ing_pc' = "L124"
                       /\ msg' = msg
                       /\ doc' = PurchaseDoc(parsed.obj, clock)
    /\ UNCHANGED <<kafka_consumer, consumer_running, storeVars, topicVars,
                   consumerState, heldClientClosed, life_pc, health_resp>>
    /\ UNCHANGED <<subscribed, commitVars, pubVars>>

\* line 124, insert_one: the driver gives the document a new _id; the store
\* accepts it, rejects it with DuplicateKeyError (a key collides with a
\* stored document), or fails otherwise.  Through a client that shutdown has
\* closed the driver raises or reconnects, depending on its version: both
\* outcomes are among these.
InsertOne(outcome) ==
    /\ ing_pc = "L124"
    /\ outcome \in {"inserted", "duplicate", "error"}
    /\ outcome = "inserted" => mongoUp
    /\ outcome = "duplicate" => mongoUp /\ store # <<>>
    /\ store' = IF outcome = "inserted"
                THEN Append(store, [doc EXCEPT !.id = Len(store) + 1])
                ELSE store
    /\ calls' = Append(calls, Call(msg, outcome))
    /\ heldClientClosed' = FALSE
    /\ ing_pc' = AfterMessage
    /\ msg' = NoMsg
    /\ doc' = NoDoc
    /\ UNCHANGED <<mongo_client, kafka_consumer, consumer_running, mongoUp,
                   topicVars, consumerState, clock, life_pc, health_resp>>
    /\ UNCHANGED <<subscribed, commitVars, pubVars>>

\* lines 173-175: finally
LoopFinally ==
    /\ ing_pc = "L174"
    /\ consumer_running' = FALSE
    /\ ing_pc' = "stopped"
    /\ UNCHANGED <<mongo_client, kafka_consumer, storeVars, topicVars,
                   consumerState, msg, doc, heldClientClosed, calls, clock,
                   life_pc, health_resp>>
    /\ UNCHANGED <<subscribed, commitVars, pubVars>>

(***************************************************************************)
(* lifespan: shutdown (lines 219-242).  Nothing waits for the thread.      *)
(***************************************************************************)
\* line 224
ShutdownSetFlag ==
    /\ life_pc = "serving"
    /\ consumer_running' = FALSE
    /\ life_pc' = "D225"
    /\ UNCHANGED <<mongo_client, kafka_consumer, storeVars, topicVars,
                   consumerState, workerVars, health_resp>>
    /\ UNCHANGED <<subscribed, commitVars, pubVars>>

\* lines 225-232: close() of a consumer with enable.auto.commit commits the
\* position a last time.
ShutdownCloseConsumer ==
    /\ life_pc = "D225"
    /\ IF kafka_consumer # None
       THEN /\ consumerState' = "closed"
            /\ kafka_consumer' = None
            /\ committed' = IF subscribed THEN pos ELSE committed
       ELSE UNCHANGED <<kafka_consumer, consumerState, committed>>
    /\ life_pc' = "D235"
    /\ UNCHANGED <<mongo_client, consumer_running, storeVars, topicVars,
                   workerVars, health_resp>>
    /\ UNCHANGED <<subscribed, crashes, pubVars>>

\* lines 235-242
ShutdownCloseMongo ==
    /\ life_pc = "D235"
    /\ IF mongo_client # None
       THEN /\ mongo_client' = None
            /\ heldClientClosed' = (ing_pc = "L124")
       ELSE UNCHANGED <<mongo_client, heldClientClosed>>
    /\ life_pc' = "down"
    /\ UNCHANGED <<kafka_consumer, consumer_running, storeVars, topicVars,
                   consumerState, ing_pc, msg, doc, calls, clock, health_resp>>
    /\ UNCHANGED <<subscribed, commitVars, pubVars>>

(***************************************************************************)
(* The consumer's position in the group (get_kafka_consumer, lines 87-93): *)
(* 'enable.auto.commit': True commits on a timer of 1000 ms, and           *)
(* 'auto.offset.reset': 'earliest' starts a group without a committed      *)
(* position at the beginning of the topic.                                 *)
(***************************************************************************)
\* The thread has a polled message in hand (lines 165-167 are running).
Handling == ing_pc \in {"L165", "L124"}

\* The commit timer fires in the consumer's background thread: it commits
\* the position poll() has reached, whether or not process_purchase_event
\* has returned for the last message.
AutoCommit ==
    /\ consumerState = "open"
    /\ subscribed
    /\ committed' = pos
    /\ committed' # committed
    /\ UNCHANGED <<mongo_client, kafka_consumer, consumer_running, storeVars,
                   topicVars, consumerState, workerVars, life_pc, health_resp>>
    /\ UNCHANGED <<subscribed, crashes, pubVars>>

\* Mutant of ResumePosition: every new consumer starts at the beginning of
\* the topic.
ResumeFromEarliest(c) == [p \in Partitions |-> 0]

\* Where a new consumer of the group starts: at the committed position, the
\* beginning of the topic when nothing was committed.
ResumePosition(c) == c

\* The process is killed and started again: the module is loaded anew
\* (lines 36-39), the topic, the store and the group's committed position
\* stay.
Crash ==
    /\ crashes < MaxCrashes
    /\ crashes' = crashes + 1
    /\ mongo_client' = None
    /\ kafka_consumer' = None
    /\ consumer_running' = FALSE
    /\ consumerState' = "absent"
    /\ subscribed' = FALSE
    /\ pos' = ResumePosition(committed)
    /\ ing_pc' = "idle"
    /\ msg' = NoMsg
    /\ doc' = NoDoc
    /\ heldClientClosed' = FALSE
    /\ life_pc' = "S201"
    /\ health_resp' = NoHealth
    /\ UNCHANGED <<storeVars, log, committed, calls, clock, pubVars>>

(***************************************************************************)
(* GET /health (lines 253-280).                                            *)
(***************************************************************************)
\* Mutant of HealthResponse: the status code does not follow the status.
HealthResponseAlways200(pingOk, running) ==
    LET status == IF pingOk /\ running THEN "healthy" ELSE "degraded"
    IN [status |-> status,
        mongodb |-> IF pingOk THEN "connected" ELSE "error",
        kafka |-> IF running THEN "consuming" ELSE "not running",
        code |-> 200]

\* lines 256-280: the body and the status code from the two sub-checks.
HealthResponse(pingOk, running) ==
    LET status == IF pingOk /\ running THEN "healthy" ELSE "degraded"
    IN [status |-> status,
        mongodb |-> IF pingOk THEN "connected" ELSE "error",
        kafka |-> IF running THEN "consuming" ELSE "not running",
        code |-> IF status = "healthy" THEN 200 ELSE 503]

Health ==
    /\ life_pc = "serving"
    /\ LET got == GetMongoClient(mongo_client, mongoUp)
       IN /\ mongo_client' = got.handle
          /\ health_resp' = HealthResponse(~got.raised /\ mongoUp, consumer_running)
    /\ UNCHANGED <<kafka_consumer, consumer_running, storeVars, topicVars,
                   consumerState, workerVars, life_pc>>
    /\ UNCHANGED <<subscribed, commitVars, pubVars>>

(***************************************************************************)
(* GET /api/purchases/{userId} (lines 283-299): the documents of the owner,*)
(* newest createdAt first.                                                 *)
(***************************************************************************)
RECURSIVE InsertDesc(_, _)
InsertDesc(d, sorted) ==
    IF sorted = <<>> THEN <<d>>
    ELSE IF d.createdAt >= Head(sorted).createdAt THEN <<d>> \o sorted
    ELSE <<Head(sorted)>> \o InsertDesc(d, Tail(sorted))

RECURSIVE SortByCreatedAtDesc(_)
SortByCreatedAtDesc(docs) ==
    IF docs = <<>> THEN <<>>
    ELSE InsertDesc(Head(docs), SortByCreatedAtDesc(Tail(docs)))

GetPurchases(userId) ==
    SortByCreatedAtDesc(SelectSeq(store, LAMBDA d : d.userId = userId))

\* lines 288-303: the response of get_purchases.  get_collection or find
\* raises when the store does not answer, and JSONResponse raises on a price
\* that is not finite: either is answered with 500.
GetPurchasesResponse(userId, up) ==
    LET found == GetPurchases(userId)
    IN IF ~up \/ \E k \in DOMAIN found : ~JsonCompliant(found[k].price)
       THEN [status_code |-> 500, purchases |-> <<>>]
       ELSE [status_code |-> 200, purchases |-> found]

(***************************************************************************)
(* customer-web-server: the producer and publish_to_kafka.                 *)
(***************************************************************************)
\* get_kafka_producer's configuration (lines 65-75)
Retries == 3
MaxInFlight == 1
EnableIdempotence == TRUE
\* "for _ in range(100)" (line 128)
MaxPolls == 100

\* The dictionaries publish_to_kafka is called with.  /buy builds the first
\* two (key = userId, which may be the empty string); the last holds a value
\* json.dumps cannot serialize.
EventE ==
    [userId |-> "", username |-> "eve", price |-> "9.99",
     timestamp |-> "2024-01-01T00:00:00Z", eventType |-> "purchase_request"]
EventX ==
    [userId |-> "u1", username |-> "ann", price |-> "<object>",
     timestamp |-> "2024-01-01T00:00:00Z", eventType |-> "purchase_request"]
PublishValues == {EventA, EventX}

\* json.dumps(value).encode('utf-8') (line 104): the text, or a TypeError.
JsonDumps(value) ==
    IF \E f \in Fields : value[f] = "<object>"
    THEN [ok |-> FALSE, text |-> Garbage]
    ELSE [ok |-> TRUE, text |-> JsonText(value)]

\* key.encode('utf-8') if key else None (line 105)
KeyBytes(key) == IF key = "" \/ key = None THEN None ELSE key

\* The producer's partitioner: the hash of the key; a message without a key
\* goes to any partition.
Partitioner(keyBytes) ==
    IF keyBytes = None THEN Partitions ELSE {PartitionOf(keyBytes)}

\* delivery_status (line 108)
InitStatus == [delivered |-> FALSE, error |-> None, completed |-> FALSE]

\* delivery_callback (lines 110-117)
DeliveryCallback(st, err) ==
    IF err # None
    THEN [st EXCEPT !.completed = TRUE, !.error = err]
    ELSE [st EXCEPT !.completed = TRUE, !.delivered = TRUE]

\* Mutant of ServeReports: every callback writes the delivery_status of the
\* call in progress (one dictionary shared by the calls).
RECURSIVE ServeReportsShared(_, _)
ServeReportsShared(st, reps) ==
    IF reps = <<>> THEN st
    ELSE ServeReportsShared(
             [st EXCEPT ![cur] = DeliveryCallback(@, Head(reps).err)],
             Tail(reps))

\* poll and flush call the callback of every delivery report that is ready;
\* each callback writes the delivery_status of the call that produced the
\* message.
RECURSIVE ServeReports(_, _)
ServeReports(st, reps) ==
    IF reps = <<>> THEN st
    ELSE ServeReports(
             [st EXCEPT ![Head(reps).seq] = DeliveryCallback(@, Head(reps).err)],
             Tail(reps))

\* lines 98-100
OnProducerNone == "False"
\* Mutant of OnException: the exception is not caught.
OnExceptionPropagates == "Raised"

\* lines 148-153
OnException == "False"
\* lines 137-147
PublishResult(st) ==
    IF st.error # None THEN "False"
    ELSE IF st.delivered THEN "True"
    ELSE "True"

Returned(seq, path, ret, st) ==
    [seq |-> seq, path |-> path, ret |-> ret, completed |-> st.completed,
     error |-> st.error]

\* POST /buy requests (BuyRequest, lines 44-48): userId is any string, the
\* empty one too; price is any float, the infinite ones too (a JSON number
\* such as 1e400); timestamp is optional.
ReqA ==
    [username |-> "ann", userId |-> "u1", price |-> "9.99",
     timestamp |-> "2024-01-01T00:00:00Z"]
ReqE ==
    [username |-> "eve", userId |-> "", price |-> "9.99",
     timestamp |-> "2024-01-01T00:00:00Z"]
ReqInf ==
    [username |-> "ann", userId |-> "u1", price |-> "Infinity",
     timestamp |-> None]

\* datetime.utcnow().isoformat() + "Z" (line 223)
UtcNow == "<utcnow>Z"

\* lines 220-231: event_payload; a timestamp that is missing or empty is
\* replaced with the current time.
EventPayload(req, now) ==
    [userId |-> req.userId,
     username |-> req.username,
     price |-> req.price,
     timestamp |-> IF req.timestamp \in {None, ""} THEN now ELSE req.timestamp,
     eventType |-> "purchase_request"]

Error500 ==
    [status_code |-> 500, status |-> "error", kafka_published |-> Absent,
     message |-> "Error processing purchase"]

\* lines 240-268: the response of /buy for what publish_to_kafka returned;
\* an exception in the handler, raised by the publish call or by the
\* construction of the JSONResponse, is answered with 500.
BuyResponse(req, ret) ==
    IF ret = "Raised" \/ ~JsonCompliant(req.price)
    THEN Error500
    ELSE [status_code |-> 200,
          status |-> "success",
          kafka_published |-> ret,
          message |-> IF ret = "True" THEN "published" ELSE "may be lost"]

\* The publish call of number seq has returned ret to its caller.
Respond(seq, req, ret) ==
    IF req = NoReq THEN buy_resps
    ELSE Append(buy_resps, [seq |-> seq, req |-> req,
                            resp |-> BuyResponse(req, ret)])

\* lines 97-124: get_kafka_producer, json.dumps, produce.  caller is the
\* /buy request the call serves, NoReq for a call from elsewhere.
BeginPublish(key, value, fault, caller) ==
    /\ pub_pc = "idle"
    /\ cur < MaxCalls
    /\ fault \in {"none", "no_producer", "produce_raises"}
    /\ fault = "no_producer" => kafka_producer = None
    /\ cur' = cur + 1
    /\ kafka_producer' = IF kafka_producer = None /\ fault = "no_producer"
                         THEN None ELSE "producer"
    /\ LET dumped == JsonDumps(value)
           path == IF fault = "no_producer" THEN "no_producer"
                   ELSE IF ~dumped.ok THEN "serialization"
                   ELSE IF fault = "produce_raises" THEN "produce"
                   ELSE "produced"
       IN IF path = "produced"
          THEN /\ \E p \in Partitioner(KeyBytes(key)) :
                    pq' = [pq EXCEPT ![p] =
                             Append(@, [msg |-> Message(KeyBytes(key), dumped.text, cur + 1),
                                        attempts |-> 0])]
               /\ delivery_status' = [delivery_status EXCEPT ![cur + 1] = InitStatus]
               /\ polls' = 0
               /\ pub_pc' = "L128"
               /\ buy_req' = caller
               /\ UNCHANGED <<pub_rets, buy_resps>>
          ELSE /\ LET ret == IF path = "no_producer" THEN OnProducerNone
                             ELSE OnException
                  IN /\ pub_rets' = Append(pub_rets,
                            Returned(cur + 1, path, ret, InitStatus))
                     /\ buy_resps' = Respond(cur + 1, caller, ret)
               /\ buy_req' = NoReq
               /\ UNCHANGED <<pq, delivery_status, polls, pub_pc>>
    /\ UNCHANGED <<ingVars, log, reports>>

\* POST /buy (lines 212-238): the event is built and published with the
\* userId as its key.
Buy(req, fault) ==
    BeginPublish(req.userId, EventPayload(req, UtcNow), fault, req)

\* Mutant of PollingDone: the loop waits for the callback without a bound.
PollingDoneOnlyOnCallback(completed, n) == completed

\* lines 128-131: the polling loop ends when the callback of the call has
\* fired, or after MaxPolls iterations.
PollingDone(completed, n) == completed \/ n >= MaxPolls

\* lines 128-131: one iteration of the polling loop.
PollStep(raises) ==
    /\ pub_pc = "L128"
    /\ IF raises
       THEN /\ pub_rets' = Append(pub_rets, Returned(cur, "poll", OnException, delivery_status[cur]))
            /\ buy_resps' = Respond(cur, buy_req, OnException)
            /\ buy_req' = NoReq
            /\ pub_pc' = "idle"
            /\ UNCHANGED <<delivery_status, reports, polls>>
       ELSE /\ delivery_status' = ServeReports(delivery_status, reports)
            /\ reports' = <<>>
            /\ polls' = polls + 1
            /\ pub_pc' = IF PollingDone(delivery_status'[cur].completed, polls + 1)
                         THEN "L134" ELSE "L128"
            /\ UNCHANGED <<pub_rets, buy_req, buy_resps>>
    /\ UNCHANGED <<ingVars, log, kafka_producer, cur, pq>>

\* lines 134-147: flush(timeout=10) returns when the queue is empty or the
\* 10 s are over, and the delivery delivery_status decides the result.
FlushAndReturn(raises) ==
    /\ pub_pc = "L134"
    /\ IF raises
       THEN /\ pub_rets' = Append(pub_rets, Returned(cur, "flush", OnException, delivery_status[cur]))
            /\ buy_resps' = Respond(cur, buy_req, OnException)
            /\ UNCHANGED <<delivery_status, reports>>
       ELSE /\ delivery_status' = ServeReports(delivery_status, reports)
            /\ reports' = <<>>
            /\ pub_rets' = Append(pub_rets,
                   Returned(cur, "returned", PublishResult(delivery_status'[cur]), delivery_status'[cur]))
            /\ buy_resps' = Respond(cur, buy_req, PublishResult(delivery_status'[cur]))
    /\ buy_req' = NoReq
    /\ pub_pc' = "idle"
    /\ UNCHANGED <<ingVars, log, kafka_producer, cur, pq, polls>>

(***************************************************************************)
(* The producer's background thread and the broker.                        *)
(***************************************************************************)
\* Requests that can be in flight on the connection of partition p: only the
\* head of the queue, unless more than one request may be in flight and
\* idempotence is off, when a later request can overtake a failed one.
CanSend(p, i) ==
    /\ i \in 1..Len(pq[p])
    /\ \/ i = 1
       \/ /\ i <= MaxInFlight
          /\ ~EnableIdempotence
          /\ \A k \in 1..(i - 1) : pq[p][k].attempts > 0

RemoveAt(q, i) == [k \in 1..(Len(q) - 1) |-> IF k < i THEN q[k] ELSE q[k + 1]]

\* The broker writes the message.  With idempotence off the acknowledgment
\* may be lost and the message is sent again.
BrokerWrite(p, i, ackLost) ==
    /\ CanSend(p, i)
    /\ ackLost => ~EnableIdempotence /\ pq[p][i].attempts < Retries
    /\ log' = [log EXCEPT ![p] = Append(@, pq[p][i].msg)]
    /\ IF ackLost
       THEN /\ pq' = [pq EXCEPT ![p][i].attempts = @ + 1]
            /\ UNCHANGED reports
       ELSE /\ pq' = [pq EXCEPT ![p] = RemoveAt(@, i)]
            /\ reports' = Append(reports, [seq |-> pq[p][i].msg.seq, err |-> None])
    /\ UNCHANGED <<ingVars, kafka_producer, pub_pc, polls, cur, delivery_status, pub_rets,
                   buy_req, buy_resps>>

\* A send fails and is retried ('retries': 3).
SendRetry(p) ==
    /\ CanSend(p, 1)
    /\ pq[p][1].attempts < Retries
    /\ pq' = [pq EXCEPT ![p][1].attempts = @ + 1]
    /\ UNCHANGED <<ingVars, log, kafka_producer, pub_pc, polls, cur, delivery_status,
                   reports, pub_rets, buy_req, buy_resps>>

\* The message is given up (message.timeout.ms, or no retry left): its
\* delivery report carries the error.
SendFail(p) ==
    /\ CanSend(p, 1)
    /\ pq' = [pq EXCEPT ![p] = Tail(@)]
    /\ reports' = Append(reports, [seq |-> pq[p][1].msg.seq, err |-> "_MSG_TIMED_OUT"])
    /\ UNCHANGED <<ingVars, log, kafka_producer, pub_pc, polls, cur, delivery_status,
                   pub_rets, buy_req, buy_resps>>

Publisher ==
    \/ \E value \in PublishValues, fault \in {"none", "no_producer", "produce_raises"} :
          BeginPublish(value.userId, value, fault, NoReq)
    \/ \E raises \in BOOLEAN : PollStep(raises)
    \/ \E raises \in BOOLEAN : FlushAndReturn(raises)

Transport ==
    \/ \E p \in Partitions, i \in 1..MaxInFlight, ackLost \in BOOLEAN :
          BrokerWrite(p, i, ackLost)
    \/ \E p \in Partitions : SendRetry(p)
    \/ \E p \in Partitions : SendFail(p)

(***************************************************************************)
(* The Ingestor service.                                                   *)
(***************************************************************************)
Worker ==
    \/ \E created \in BOOLEAN : GetKafkaConsumer(created)
    \/ \E ok \in BOOLEAN : Subscribe(ok)
    \/ SetRunning
    \/ LoopCheck
    \/ PollClosed
    \/ PollNone
    \/ \E code \in ErrorCodes : PollError(code)
    \/ \E p \in Partitions : PollMessage(p)
    \/ ProcessDecode
    \/ \E outcome \in {"inserted", "duplicate", "error"} : InsertOne(outcome)
    \/ LoopFinally

Lifespan ==
    \/ StartupMongo
    \/ StartKafkaConsumer
    \/ ShutdownSetFlag
    \/ ShutdownCloseConsumer
    \/ ShutdownCloseMongo

Next ==
    \/ \E m \in TopicMessages : TopicAppend(m)
    \/ MongoFlip
    \/ Lifespan
    \/ Worker
    \/ Health

Spec == Init /\ [][Next]_vars

\* The consumer thread and the main thread are running threads: each is
\* scheduled while it has a step to take.
SpecFair == Spec /\ WF_vars(Worker) /\ WF_vars(Lifespan)

(***************************************************************************)
(* The Ingestor service with the commit timer, killed and restarted, on a   *)
(* topic with the purchases of one owner and a store that accepts every    *)
(* insert.                                                                 *)
(***************************************************************************)
CrashTopic == {Message(e.userId, JsonText(e), 0) : e \in {EventA, EventB}}

NextCrash ==
    \/ \E m \in CrashTopic : TopicAppend(m)
    \/ StartupMongo
    \/ StartKafkaConsumer
    \/ \E created \in BOOLEAN : GetKafkaConsumer(created)
    \/ \E ok \in BOOLEAN : Subscribe(ok)
    \/ SetRunning
    \/ LoopCheck
    \/ PollNone
    \/ \E p \in Partitions : PollMessage(p)
    \/ ProcessDecode
    \/ InsertOne("inserted")
    \/ LoopFinally
    \/ AutoCommit
    \/ Crash

SpecCrash == Init /\ [][NextCrash]_vars

(***************************************************************************)
(* The Publisher service with its producer and the broker.                 *)
(***************************************************************************)
NextPub ==
    \/ Publisher
    \/ Transport

SpecPub == Init /\ [][NextPub]_vars

\* The request handler that called publish_to_kafka keeps running; nothing
\* is assumed of the producer's background thread or the broker.
SpecPubFair == SpecPub /\ WF_vars(Publisher)

(***************************************************************************)
(* The /buy endpoint with its producer and the broker.                     *)
(***************************************************************************)
BuyRequests == {ReqA, ReqInf}

NextBuy ==
    \/ \E req \in BuyRequests, fault \in {"none", "no_producer", "produce_raises"} :
          Buy(req, fault)
    \/ \E raises \in BOOLEAN : PollStep(raises)
    \/ \E raises \in BOOLEAN : FlushAndReturn(raises)
    \/ Transport

SpecBuy == Init /\ [][NextBuy]_vars

(***************************************************************************)
(* The pipeline: /buy requests published for two owners, one of them with  *)
(* the empty userId, the broker, and the Ingestor consuming the topic.     *)
(***************************************************************************)
OrderRequests == {ReqA, ReqE}
OrderValues == {EventPayload(req, UtcNow) : req \in OrderRequests}

NextOrd ==
    \/ \E req \in OrderRequests : Buy(req, "none")
    \/ PollStep(FALSE)
    \/ FlushAndReturn(FALSE)
    \/ Transport
    \/ StartupMongo
    \/ StartKafkaConsumer
    \/ \E created \in BOOLEAN : GetKafkaConsumer(created)
    \/ \E ok \in BOOLEAN : Subscribe(ok)
    \/ SetRunning
    \/ LoopCheck
    \/ PollNone
    \/ \E p \in Partitions : PollMessage(p)
    \/ ProcessDecode
    \/ \E outcome \in {"inserted", "duplicate", "error"} : InsertOne(outcome)
    \/ LoopFinally

SpecOrd == Init /\ [][NextOrd]_vars

(***************************************************************************)
(* The same pipeline for the purchases of one owner, one of them with an   *)
(* infinite price.                                                         *)
(***************************************************************************)
NextE2E ==
    \/ \E req \in BuyRequests : Buy(req, "none")
    \/ PollStep(FALSE)
    \/ FlushAndReturn(FALSE)
    \/ Transport
    \/ StartupMongo
    \/ StartKafkaConsumer
    \/ \E created \in BOOLEAN : GetKafkaConsumer(created)
    \/ \E ok \in BOOLEAN : Subscribe(ok)
    \/ SetRunning
    \/ LoopCheck
    \/ PollNone
    \/ \E p \in Partitions : PollMessage(p)
    \/ ProcessDecode
    \/ \E outcome \in {"inserted", "duplicate", "error"} : InsertOne(outcome)
    \/ LoopFinally

SpecE2E == Init /\ [][NextE2E]_vars

(***************************************************************************)
(* Properties.                                                             *)
(***************************************************************************)
\* Shutdown has executed "consumer_running = False" (line 224).
StopRequested == life_pc \in {"D225", "D235", "down"}

\* The consumer thread takes a step.
WorkerStep == ing_pc' # ing_pc

\* The document is the record of event e.
SameEvent(d, e) ==
    /\ d.userId = Get(e, "userId")
    /\ d.username = Get(e, "username")
    /\ d.price = Get(e, "price")
    /\ d.timestamp = Get(e, "timestamp")
    /\ d.eventType = GetDefault(e, "eventType", "purchase_request")

LastCall == calls[Len(calls)]

\* C1: when process_purchase_event has run twice on the identical valid
\* message and reported success both times, the owner query returns exactly
\* one record of that message.
C1_IdempotentConsumption ==
    \A e \in Events :
        Cardinality({i \in DOMAIN calls :
                        calls[i].msg.value = JsonText(e) /\ calls[i].ret}) >= 2
            => LET found == GetPurchases(Get(e, "userId"))
               IN Cardinality({k \in DOMAIN found : SameEvent(found[k], e)}) = 1

\* C5: handling a payload that is not JSON inserts nothing, returns False,
\* leaves the loop in POLLING and the consumption position where it is;
\* every polled message is handed to process_purchase_event exactly once;
\* and a valid message, also one that follows a malformed one, is taken to
\* the insert whenever the store is reachable and is stored unless the
\* store rejects it.
C5_MalformedResilience ==
    /\ [][(ing_pc = "L165" /\ msg.value.fmt = "garbage" /\ WorkerStep)
            => /\ store' = store
               /\ pos' = pos
               /\ ing_pc' = "L149"
               /\ consumer_running' = consumer_running
               /\ calls' = Append(calls, [msg |-> msg, path |-> "decode",
                                          ret |-> FALSE])]_vars
    /\ [](Len(calls) + (IF ing_pc \in {"L165", "L124"} THEN 1 ELSE 0)
            = pos[1] + pos[2])
    /\ [](\A k \in DOMAIN store : \E e \in Events : SameEvent(store[k], e))
    /\ [][(ing_pc = "L165" /\ msg.value.fmt = "json" /\ WorkerStep /\ mongoUp)
            => /\ ing_pc' = "L124"
               /\ SameEvent(doc', msg.value.obj)]_vars
    /\ [][(ing_pc = "L124" /\ WorkerStep)
            => \/ /\ LastCall'.path = "inserted"
                  /\ Len(store') = Len(store) + 1
                  /\ SameEvent(store'[Len(store')], msg.value.obj)
               \/ /\ LastCall'.path \in {"duplicate", "error"}
                  /\ store' = store]_vars

\* C5 witness: a malformed message was dropped, a valid message processed
\* after it is in the store, and the loop is still polling.
C5_Witness ==
    /\ IngState(ing_pc) = "POLLING"
    /\ \E i, j \in DOMAIN calls :
          /\ i < j
          /\ calls[i].path = "decode"
          /\ calls[j].path = "inserted"
          /\ \E k \in DOMAIN store : SameEvent(store[k], calls[j].msg.value.obj)

\* C6: when the store rejects the insert with a duplicate-key error,
\* process_purchase_event returns True, the store is unchanged and the loop
\* goes on polling.
C6_DuplicateSuppressed ==
    [][(ing_pc = "L124" /\ WorkerStep /\ LastCall'.path = "duplicate")
         => /\ LastCall'.ret = TRUE
            /\ store' = store
            /\ ing_pc' = "L149"
            /\ IngState(ing_pc') = "POLLING"
            /\ consumer_running' = consumer_running]_vars

\* C6 witness: a duplicate-key rejection has happened and the loop polls.
C6_Witness ==
    /\ calls # <<>>
    /\ LastCall.path = "duplicate"
    /\ LastCall.ret = TRUE
    /\ ing_pc = "L150"

\* C7: the consumer is closed only after the loop has exited: it is never
\* closed while the thread is inside a poll or processing a message.
C7_ClosedOnlyAfterLoopExit ==
    consumerState = "closed" => ing_pc \notin {"L150", "L165", "L124"}

\* C8: once shutdown has set the stop flag, the loop eventually reaches
\* STOPPED.
C8_StopIsEffective ==
    StopRequested ~> (IngState(ing_pc) = "STOPPED")

\* C9: the loop leaves POLLING only after shutdown has set the stop flag.
C9_LeavesPollingOnlyOnStop ==
    [][(IngState(ing_pc) = "POLLING" /\ IngState(ing_pc') # "POLLING")
         => StopRequested]_vars

\* C9 witness: a decode failure and a store error have happened, no stop was
\* requested and the loop is polling.
C9_Witness ==
    /\ ~StopRequested
    /\ ing_pc = "L150"
    /\ \E i, j \in DOMAIN calls :
          calls[i].path = "decode" /\ calls[j].path = "error"

\* C10: the Ingestor moves only STOPPED -> SUBSCRIBING -> POLLING -> STOPPED
\* (or SUBSCRIBING -> STOPPED when the consumer cannot be created or the
\* subscription fails); it is in POLLING only with a consumer that was
\* created and subscribed, and without a subscription nothing is polled or
\* inserted; the thread's end is final, with consumer_running false, and
\* /health then reports kafka "not running", degraded, 503.
C10_SubscribeFailureStops ==
    /\ [][LET from == IngState(ing_pc)
               to == IngState(ing_pc')
           IN \/ to = from
              \/ from = "STOPPED" /\ to = "SUBSCRIBING" /\ ing_pc = "idle"
              \/ from = "SUBSCRIBING" /\ to \in {"POLLING", "STOPPED"}
              \/ from = "POLLING" /\ to = "STOPPED"]_vars
    /\ [](IngState(ing_pc) = "POLLING" => subscribed /\ consumerState # "absent")
    /\ [](~subscribed => calls = <<>> /\ store = <<>> /\ pos = [p \in Partitions |-> 0])
    /\ [][(ing_pc \in {"stopped", "dead"} => ing_pc' = ing_pc)
           /\ (ing_pc = "L174" => ing_pc' \in {"L174", "stopped"})]_vars
    /\ [](ing_pc \in {"stopped", "dead"} =>
            /\ ~consumer_running
            /\ \A pingOk \in BOOLEAN :
                  /\ HealthResponse(pingOk, consumer_running).kafka = "not running"
                  /\ HealthResponse(pingOk, consumer_running).status = "degraded"
                  /\ HealthResponse(pingOk, consumer_running).code = 503)
    /\ [][(health_resp' # health_resp /\ ing_pc \in {"stopped", "dead"})
            => /\ health_resp'.kafka = "not running"
               /\ health_resp'.status = "degraded"
               /\ health_resp'.code = 503]_vars

\* C10 witness: the subscription failed on an open consumer, the thread has
\* ended without polling, and /health has answered "not running".
C10_Witness ==
    /\ ing_pc = "stopped"
    /\ consumerState = "open"
    /\ ~subscribed
    /\ ~consumer_running
    /\ calls = <<>>
    /\ life_pc = "serving"
    /\ health_resp.kafka = "not running"
    /\ health_resp.code = 503

\* C2: a publish call that returns without its delivery callback having
\* fired returns False.
C2_NoConfirmationIsFailure ==
    \A i \in DOMAIN pub_rets :
        ~pub_rets[i].completed => pub_rets[i].ret = "False"

\* C3: every publish call returns a boolean, no exception leaves it, and it
\* returns False when the producer is unavailable, when serialization fails
\* and when the delivery callback reported an error.
C3_PublisherNeverRaises ==
    \A i \in DOMAIN pub_rets :
        /\ pub_rets[i].ret \in {"True", "False"}
        /\ pub_rets[i].path \in {"no_producer", "serialization"}
              => pub_rets[i].ret = "False"
        /\ pub_rets[i].path \in {"produce", "poll", "flush"}
              => pub_rets[i].ret = "False"
        /\ pub_rets[i].error # None => pub_rets[i].ret = "False"

\* C3 witness: one call found no producer, and a later call's delivery
\* callback reported an error.
C3_Witness ==
    \E i, j \in DOMAIN pub_rets :
        /\ pub_rets[i].path = "no_producer"
        /\ pub_rets[j].path = "returned"
        /\ pub_rets[j].error # None
        /\ pub_rets[j].ret = "False"

\* The owner key of a processed message.
OwnerKey(c) == c.msg.value.obj.userId

\* C4: for a fixed ownerKey, a record published before another one is
\* processed by the Ingestor before it.
C4_PerKeyOrder ==
    \A i, j \in DOMAIN calls :
        (/\ OwnerKey(calls[i]) = OwnerKey(calls[j])
         /\ calls[i].msg.seq < calls[j].msg.seq)
            => i < j

\* The same for the owner keys that are not empty: the records of such a key
\* share a partition.
PerKeyOrderOfNonEmptyKeys ==
    \A i, j \in DOMAIN calls :
        (/\ OwnerKey(calls[i]) = OwnerKey(calls[j])
         /\ OwnerKey(calls[i]) # ""
         /\ calls[i].msg.seq < calls[j].msg.seq)
            => i < j

\* C11: /health answers healthy with 200 exactly when the store ping
\* succeeds and the run flag is set; otherwise it answers degraded with
\* 503, mongodb carries the error exactly when the ping failed and kafka is
\* "not running" exactly when the flag is not set.
C11_CompositeHealth ==
    /\ [](\A pingOk, running \in BOOLEAN :
            LET r == HealthResponse(pingOk, running)
            IN /\ (r.status = "healthy" /\ r.code = 200) <=> (pingOk /\ running)
               /\ (r.status = "degraded" /\ r.code = 503) <=> ~(pingOk /\ running)
               /\ r.mongodb = (IF pingOk THEN "connected" ELSE "error")
               /\ r.kafka = (IF running THEN "consuming" ELSE "not running"))
    /\ [][health_resp' # health_resp
            => /\ (health_resp'.status = "healthy") <=> (mongoUp /\ consumer_running)
               /\ health_resp'.status \in {"healthy", "degraded"}
               /\ health_resp'.code =
                     (IF health_resp'.status = "healthy" THEN 200 ELSE 503)
               /\ (health_resp'.mongodb = "error") <=> ~mongoUp
               /\ (health_resp'.mongodb = "connected") <=> mongoUp
               /\ (health_resp'.kafka = "not running") <=> ~consumer_running
               /\ (health_resp'.kafka = "consuming") <=> consumer_running]_vars

\* C11 witness: /health has answered with the store unreachable and the
\* Ingestor not running: both sub-checks are reported.
C11_Witness ==
    /\ health_resp.status = "degraded"
    /\ health_resp.code = 503
    /\ health_resp.mongodb = "error"
    /\ health_resp.kafka = "not running"
    /\ ~mongoUp
    /\ ~consumer_running

\* C12: the run flag is set exactly when the consumer thread is in POLLING.
C12_FlagMatchesPolling ==
    consumer_running <=> (IngState(ing_pc) = "POLLING")

\* The same while the service is serving requests: /health is answered only
\* then.
FlagMatchesPollingWhileServing ==
    life_pc \in {"S201", "S211", "serving"}
        => (consumer_running <=> (IngState(ing_pc) = "POLLING"))

\* The process is killed and started again.
CrashStep == crashes' # crashes

\* C13: the committed position follows the polled position and not the
\* insert.  (a) A restart resumes at the committed position, so a message
\* polled but not committed is delivered again.  (b) A message that was
\* committed while in hand is dropped by the crash, and no later poll
\* delivers it: polls deliver only the message after the position, the
\* position is never below the committed one, and the store takes only the
\* message in hand.
C13_AutoCommitCrashWindows ==
    /\ [](\A p \in Partitions :
            committed[p] <= pos[p] /\ pos[p] <= Len(log[p]))
    /\ [][(committed' # committed)
            => /\ committed' = pos
               /\ store' = store
               /\ calls' = calls
               /\ ing_pc' = ing_pc]_vars
    /\ [][\A p \in Partitions : committed'[p] >= committed[p]]_vars
    /\ [][CrashStep
            => /\ pos' = committed
               /\ committed' = committed
               /\ store' = store
               /\ log' = log
               /\ calls' = calls
               /\ ~Handling'
               /\ msg' = NoMsg]_vars
    /\ [][\A p \in Partitions :
            (pos'[p] > pos[p])
                => /\ pos'[p] = pos[p] + 1
                   /\ pos'[p] > committed[p]
                   /\ msg' = log[p][pos'[p]]
                   /\ Handling']_vars
    /\ [][(store' # store)
            => /\ Handling
               /\ Len(store') = Len(store) + 1
               /\ SameEvent(store'[Len(store')], msg.value.obj)
               /\ calls' = Append(calls, Call(msg, "inserted"))]_vars

\* C13 witness: after two crashes the first message has been processed
\* twice (it was polled and inserted, and the crash came before its commit)
\* and the second message never (it was committed while in hand); both are
\* behind the committed position and the loop polls with nothing left.
C13_Witness ==
    /\ crashes = 2
    /\ log[1] = <<Message("u1", JsonText(EventA), 0),
                  Message("u1", JsonText(EventB), 0)>>
    /\ committed[1] = 2
    /\ pos[1] = 2
    /\ ing_pc = "L150"
    /\ Len(calls) = 2
    /\ \A i \in DOMAIN calls :
          calls[i].msg.value = JsonText(EventA) /\ calls[i].path = "inserted"
    /\ Len(store) = 2
    /\ \A k \in DOMAIN store : SameEvent(store[k], EventA)

\* C14: when the insert (or get_collection) fails with an error that is not
\* a duplicate key, nothing is stored, process_purchase_event returns False
\* and is not called again for the message: every polled message gets one
\* call; the position stays past the message and never goes back; the loop
\* goes to its next poll.
C14_StoreErrorNotRetried ==
    /\ [][(Handling /\ WorkerStep /\ Len(calls') = Len(calls) + 1
            /\ LastCall'.path = "error")
            => /\ store' = store
               /\ LastCall'.msg = msg
               /\ LastCall'.ret = FALSE
               /\ pos' = pos
               /\ ing_pc' = "L149"
               /\ IngState(ing_pc') = "POLLING"
               /\ ~Handling'
               /\ consumer_running' = consumer_running]_vars
    /\ [](Len(calls) + (IF Handling THEN 1 ELSE 0) = pos[1] + pos[2])
    /\ [][\A p \in Partitions : pos'[p] >= pos[p]]_vars
    /\ [](Handling => \E p \in Partitions :
                         pos[p] >= 1 /\ log[p][pos[p]] = msg)

\* C14 witness: an insert failed, the next message was polled and stored,
\* and the loop polls.
C14_Witness ==
    /\ ing_pc = "L150"
    /\ Len(calls) = 2
    /\ calls[1].path = "error"
    /\ calls[1].msg.value = JsonText(EventA)
    /\ calls[2].path = "inserted"
    /\ calls[2].msg.value = JsonText(EventC)
    /\ Len(store) = 1
    /\ SameEvent(store[1], EventC)
    /\ pos[1] + pos[2] = 2

\* C15: every record in the store has a userId that is not missing, not
\* null and not empty.
C15_OwnerKeyNonEmpty ==
    \A k \in DOMAIN store : store[k].userId \notin {None, Absent, ""}

\* The response of /buy to the publish call of number seq, and what the
\* call returned.
RespOf(i) == buy_resps[i].resp
RetOf(i) == pub_rets[CHOOSE j \in DOMAIN pub_rets :
                        pub_rets[j].seq = buy_resps[i].seq].ret

\* C16: every /buy is answered with 200 and kafka_published is what the
\* publish call returned; a failed publish is answered with 200 and the
\* "may be lost" message, never with a 5xx.
C16_FailedPublishIs200 ==
    \A i \in DOMAIN buy_resps :
        /\ RespOf(i).status_code = 200
        /\ RespOf(i).kafka_published = RetOf(i)
        /\ RetOf(i) = "False" => RespOf(i).message = "may be lost"

\* The same for the requests whose price is finite; a request with an
\* infinite price is answered with 500 whatever publish returned.
Answers200ForFinitePrice ==
    \A i \in DOMAIN buy_resps :
        IF JsonCompliant(buy_resps[i].req.price)
        THEN /\ RespOf(i).status_code = 200
             /\ RespOf(i).kafka_published = RetOf(i)
             /\ RetOf(i) = "False" => RespOf(i).message = "may be lost"
        ELSE RespOf(i).status_code = 500

\* The event of request req was published for its owner and is the only
\* message of that owner the Ingestor has handled, with the store available
\* and accepting the insert.
DeliveredOnce(req) ==
    LET e == EventPayload(req, UtcNow)
        own == {i \in DOMAIN calls : OwnerKey(calls[i]) = e.userId}
    IN /\ mongoUp
       /\ Cardinality(own) = 1
       /\ \A i \in own : /\ calls[i].msg.value = JsonText(e)
                          /\ calls[i].msg.seq > 0
                          /\ calls[i].path = "inserted"

\* C17: when one event was published for an owner and delivered once with
\* the store available, the store holds exactly one record of the owner,
\* its fields are the published ones, and the owner query returns exactly
\* that record.
C17_EndToEndFidelity ==
    \A req \in BuyRequests :
        DeliveredOnce(req)
            => LET e == EventPayload(req, UtcNow)
                   r == GetPurchasesResponse(e.userId, mongoUp)
               IN /\ Cardinality({k \in DOMAIN store :
                                     store[k].userId = e.userId}) = 1
                  /\ \A k \in DOMAIN store :
                        store[k].userId = e.userId => SameEvent(store[k], e)
                  /\ r.status_code = 200
                  /\ Len(r.purchases) = 1
                  /\ SameEvent(r.purchases[1], e)

\* The same with the query left out when the price is not finite: the
\* record is stored as published, and the query returns it when its price
\* is finite.
FidelityOfStoredRecord ==
    \A req \in BuyRequests :
        DeliveredOnce(req)
            => LET e == EventPayload(req, UtcNow)
                   r == GetPurchasesResponse(e.userId, mongoUp)
               IN /\ Cardinality({k \in DOMAIN store :
                                     store[k].userId = e.userId}) = 1
                  /\ \A k \in DOMAIN store :
                        store[k].userId = e.userId => SameEvent(store[k], e)
                  /\ IF JsonCompliant(e.price)
                     THEN /\ r.status_code = 200
                          /\ Len(r.purchases) = 1
                          /\ SameEvent(r.purchases[1], e)
                     ELSE r.status_code = 500

\* C18: when poll returns an event that carries an error (the end of a
\* partition or a transport error), the event is not decoded and not
\* inserted: the store, the calls of process_purchase_event and the
\* position are unchanged, and the loop is at its head, still in POLLING;
\* such an event never reaches the decode or the insert.
C18_ErrorEventsSkipped ==
    /\ [][(ing_pc = "L150" /\ IsErrorEvent(msg'))
            => /\ store' = store
               /\ calls' = calls
               /\ pos' = pos
               /\ doc' = doc
               /\ consumer_running' = consumer_running
               /\ ing_pc' = "L149"
               /\ IngState(ing_pc') = "POLLING"]_vars
    /\ [](IsErrorEvent(msg) => ing_pc = "L149")
    /\ [](\A i \in DOMAIN calls : ~IsErrorEvent(calls[i].msg))
    /\ [][(ing_pc = "L149" /\ IsErrorEvent(msg) /\ WorkerStep)
            => /\ store' = store
               /\ calls' = calls
               /\ pos' = pos
               /\ ing_pc' = (IF consumer_running THEN "L150" ELSE "L174")]_vars

\* C18 witness: after a record was stored, poll has returned a transport
\* error; the record is still the only one and the loop is at its head,
\* running.
C18_Witness ==
    /\ msg = ErrorEvent("_TRANSPORT")
    /\ ing_pc = "L149"
    /\ consumer_running
    /\ Len(store) = 1
    /\ Len(calls) = 1
    /\ pos[1] + pos[2] = 1

\* C19: a publish call polls at most MaxPolls times and not again once its
\* delivery callback has fired, then flushes once and returns; every call
\* in progress returns, whatever the producer's thread and the broker do.
C19_PublishIsBounded ==
    /\ [](polls <= MaxPolls)
    /\ [](pub_pc = "L128"
            => ~delivery_status[cur].completed /\ polls < MaxPolls)
    /\ [][(polls' # polls)
            => \/ pub_pc = "L128" /\ polls' = polls + 1
               \/ pub_pc = "idle" /\ pub_pc' = "L128" /\ polls' = 0]_vars
    /\ [][(pub_pc = "L128" /\ polls' = polls + 1
            /\ (delivery_status'[cur].completed \/ polls' = MaxPolls))
            => pub_pc' = "L134"]_vars
    /\ [][(pub_pc = "L134" /\ pub_pc' # pub_pc)
            => /\ pub_pc' = "idle"
               /\ polls' = polls
               /\ Len(pub_rets') = Len(pub_rets) + 1
               /\ pub_rets'[Len(pub_rets')].seq = cur]_vars
    /\ [][(pub_pc # "L134" /\ pub_pc' = "L134") => pub_pc = "L128"]_vars
    /\ [](Len(pub_rets) + (IF pub_pc = "idle" THEN 0 ELSE 1) = cur)
    /\ ((pub_pc # "idle") ~> (pub_pc = "idle"))

\* C19 witness: a call has polled MaxPolls times without its callback
\* firing, flushed and returned.
C19_Witness ==
    /\ pub_pc = "idle"
    /\ polls = MaxPolls
    /\ pub_rets # <<>>
    /\ pub_rets[Len(pub_rets)].path = "returned"
    /\ ~pub_rets[Len(pub_rets)].completed

\* The delivery reports of the message of call c among reps, applied to the
\* delivery_status d of that call.
RECURSIVE OwnCallbacks(_, _, _)
OwnCallbacks(d, c, reps) ==
    IF reps = <<>> THEN d
    ELSE OwnCallbacks(IF Head(reps).seq = c
                      THEN DeliveryCallback(d, Head(reps).err) ELSE d,
                      c, Tail(reps))

\* C20: the delivery_status of a call changes only through the delivery
\* reports of the message this call produced (and when the call starts);
\* reports of other calls' messages served by its poll or flush leave it
\* alone, and what the call returns is decided by its own delivery_status.
C20_ConfirmationsNotMixed ==
    /\ [][\A c \in 1..MaxCalls :
            delivery_status'[c] =
                IF cur' # cur /\ c = cur' /\ pub_pc' = "L128" THEN InitStatus
                ELSE IF reports' = <<>> /\ pub_pc \in {"L128", "L134"}
                     THEN OwnCallbacks(delivery_status[c], c, reports)
                     ELSE delivery_status[c]]_vars
    /\ [][(pub_pc = "L134" /\ pub_pc' = "idle"
            /\ pub_rets'[Len(pub_rets')].path = "returned")
            => LET r == pub_rets'[Len(pub_rets')]
                   own == OwnCallbacks(delivery_status[cur], cur, reports)
               IN /\ r.seq = cur
                  /\ r.completed = own.completed
                  /\ r.error = own.error
                  /\ r.ret = PublishResult(own)]_vars
    /\ [](\A c \in 1..MaxCalls :
            (delivery_status[c].error # None \/ delivery_status[c].delivered)
                => delivery_status[c].completed)

\* C20 witness: the first call returned before its callback had fired; the
\* error report of its message was served during the second call, which
\* returned True on the success report of its own message.
C20_Witness ==
    /\ Len(pub_rets) = 2
    /\ pub_rets[1].seq = 1
    /\ ~pub_rets[1].completed
    /\ delivery_status[1].error # None
    /\ pub_rets[2].seq = 2
    /\ pub_rets[2].path = "returned"
    /\ pub_rets[2].completed
    /\ pub_rets[2].error = None
    /\ pub_rets[2].ret = "True"
    /\ delivery_status[2].delivered
    /\ delivery_status[2].error = None

\* Shutdown has closed the store client and reset mongo_client to None
\* (lines 235-242 are done).
ShutdownDone == life_pc = "down"

\* C21: once shutdown has closed the store client and reset the handle, no
\* new store client is created and no record is inserted.
C21_ShutdownIsFinalForStore ==
    [][ShutdownDone => (mongo_client' = None /\ store' = store)]_vars

\* C22: a shared store handle that is not None is one whose ping succeeded
\* when it was created: a failed ping leaves the handle unset.
C22_FailedConnectionNotCached ==
    mongo_client \in {None, "pinged"}

=============================================================================
